---- MODULE Spec2Model ----
(***************************************************************************)
(* A model of the notes store of akshat2508/notesapp (src/src/store.ts)    *)
(* together with the remote client it calls (supabase.ts, kept in          *)
(* src/unnamed/part_000) and the device key-value slot 'notes'.            *)
(*                                                                         *)
(* Every createAsyncThunk is a small process: the part of the payload      *)
(* creator that runs up to its first await is one action (the dispatch),   *)
(* every remote call is one action at the moment the backend serves it,    *)
(* and the arrival of the last response together with the fulfilled or     *)
(* rejected reducer is one action.  Reducers are atomic.  AsyncStorage     *)
(* serves its requests in the order they are issued, so a setItem issued   *)
(* by a reducer takes effect with the reducer.                             *)
(*                                                                         *)
(* The screens (App.tsx, AuthScreen.tsx, NotesScreen.tsx) are the handlers *)
(* that dispatch the thunks, the effects of NotesScreen and the list it    *)
(* displays; alerts and styling are left out.                              *)
(***************************************************************************)
EXTENDS Integers, Sequences, FiniteSets, TLC

VARIABLES
    user,        \* state.auth.user (NoUser for null)
    session,     \* the user the supabase client is signed in as
    authLoading, \* state.auth.isLoading
    authError,   \* state.auth.error
    notes,       \* state.notes.notes
    isLoading,   \* state.notes.isLoading
    error,       \* state.notes.error
    syncStatus,  \* state.notes.syncStatus
    stored,      \* the AsyncStorage slot 'notes'
    remote,      \* the rows of the remote notes table
    nextId,      \* the next identifier the remote table hands out
    now,         \* Date.now()
    added,       \* number of addNote dispatches so far
    ops,         \* number of thunks dispatched so far
    mounted,     \* whether NotesScreen is mounted
    searchQuery, \* state.notes.searchQuery
    timers,      \* number of pending setTimeout callbacks of NotesScreen
    removed,     \* the ids removeNote has been fulfilled with
    addedSince,  \* for the loadNotes run and the syncNotes runs in flight: the
                 \* notes addNote has put in the list since the run started
    addT,        \* the addNote thunk in flight
    rmT,         \* the removeNote thunk in flight
    loadT,       \* the loadNotes thunk in flight
    syncT,       \* the syncNotes thunk in flight
    syncT2,      \* a second syncNotes thunk in flight at the same time
    loginT,      \* the loginUser thunk in flight
    logoutT,     \* the logoutUser thunk in flight
    registerT,   \* the registerUser thunk in flight
    checkT       \* the checkAuthStatus thunk in flight

vars == <<user, session, authLoading, authError, notes, isLoading, error,
          syncStatus, stored, remote, nextId, now, added, ops, mounted,
          searchQuery, timers, removed, addedSince,
          addT, rmT, loadT, syncT, syncT2, loginT, logoutT, registerT, checkT>>

authVars   == <<user, session, authLoading, authError>>
thunkVars  == <<addT, rmT, loadT, syncT, syncT2, loginT, logoutT, registerT, checkT>>
screenVars == <<mounted, searchQuery, timers>>

----------------------------------------------------------------------------
\* Bounds

\* thunks dispatched in one behaviour
MaxOps == 3

\* notes saved with a text typed into the add modal in one behaviour
MaxSaves == 2

----------------------------------------------------------------------------
\* Values

NoUser == "null"
Users == {"u1", "u2"}

NoId == <<"none", 0>>
OfflineId(t) == <<"offline", t>>
RowId(k) == <<"row", k>>
\* an identifier no note carries
MissingId == <<"missing", 0>>

Null == "null"

\* the addNote calls made before NotesScreen is on display in InitMounted
InitialAdded == 2

\* searchQuery: ''
NoQuery == <<>>

\* Strings are sequences of characters.
Blank == " "
Empty == <<>>

\* String.prototype.trim: whitespace is taken off both ends
IsSpace(ch) == ch = Blank

RECURSIVE TrimStart(_)
TrimStart(s) == IF s # Empty /\ IsSpace(Head(s)) THEN TrimStart(Tail(s)) ELSE s

RECURSIVE TrimEnd(_)
TrimEnd(s) ==
    IF s # Empty /\ IsSpace(s[Len(s)]) THEN TrimEnd(SubSeq(s, 1, Len(s) - 1)) ELSE s

\* Trim taking whitespace off the front only
TrimFrontOnly(s) == TrimStart(s)

Trim(s) == TrimEnd(TrimStart(s))

\* String.prototype.toLowerCase
LowerChar(ch) == IF ch = "A" THEN "a" ELSE IF ch = "B" THEN "b" ELSE ch
ToLowerCase(s) == [i \in 1..Len(s) |-> LowerChar(s[i])]

\* String.prototype.includes
RECURSIVE Includes(_, _)
Includes(s, q) ==
    IF Len(q) > Len(s) THEN FALSE
    ELSE IF SubSeq(s, 1, Len(q)) = q THEN TRUE
    ELSE Includes(Tail(s), q)

\* title, description and tags of a note
Text(title, description, tags) ==
    [title |-> title, description |-> description, tags |-> tags]

\* the text of the notes in the specifications that are not about text
PlainText == Text(<<"a">>, Empty, Empty)

\* A Note: isOffline and localId are absent (FALSE, NoId) on rows that came
\* from the remote table.
\* content tells the notes of different addNote calls apart: the k-th addNote
\* carries k.
Note(id, uid, c, t, off, lid) ==
    [id |-> id, user_id |-> uid, content |-> c, text |-> PlainText,
     updated_at |-> t, isOffline |-> off, localId |-> lid]

NoNote == Note(NoId, "none", 0, 0, FALSE, NoId)

\* stored ? JSON.parse(stored) : []
Absent == [has |-> FALSE, val |-> <<>>]
Item(list) == [has |-> TRUE, val |-> list]
ParseStored(slot) == IF slot.has THEN slot.val ELSE <<>>

\* notes.filter(note => note.isOffline)
FilterOffline(list) == SelectSeq(list, LAMBDA n : n.isOffline)


----------------------------------------------------------------------------
\* The remote notes table and its row-level policies

Row(id, uid, c, t) ==
    [id |-> id, user_id |-> uid, content |-> c, text |-> PlainText, updated_at |-> t]

\* a row as the client receives it
RowAsNote(r) ==
    [Note(r.id, r.user_id, r.content, r.updated_at, FALSE, NoId) EXCEPT !.text = r.text]

\* FOR INSERT WITH CHECK (auth.uid() = user_id)
CanInsert(uid) == session # NoUser /\ session = uid

\* FOR SELECT USING (auth.uid() = user_id)
Visible == {r \in remote : r.user_id = session}

\* select('*').order('updated_at', { ascending: false }): every ordering of
\* the visible rows by falling updated_at (rows of equal time in any order)
FetchResults ==
    LET n == Cardinality(Visible)
    IN  {[i \in 1..n |-> RowAsNote(f[i])] :
            f \in {g \in [1..n -> Visible] :
                      /\ \A i, j \in 1..n : i # j => g[i] # g[j]
                      /\ \A i, j \in 1..n : i < j => g[i].updated_at >= g[j].updated_at}}

\* insert([note]).select().single(): the backend stores the row under an
\* identifier of its own and returns it
InsertedRow(note) ==
    [Row(RowId(nextId), note.user_id, note.content, note.updated_at)
        EXCEPT !.text = note.text]

\* delete().eq('id', id), FOR DELETE USING (auth.uid() = user_id)
DeleteRows(id) == {r \in remote : ~(r.id = id /\ r.user_id = session)}

----------------------------------------------------------------------------
\* Thunks at rest

IdleAdd == [pc |-> "idle", note |-> NoNote, ok |-> FALSE, data |-> NoNote]
IdleRm == [pc |-> "idle", noteId |-> NoId]
IdleLoad == [pc |-> "idle", ok |-> FALSE, data |-> <<>>, result |-> <<>>]
IdleSync == [pc |-> "idle", user |-> NoUser, notes |-> <<>>, queue |-> <<>>,
             results |-> <<>>, ok |-> FALSE, data |-> <<>>]
IdleLogin == [pc |-> "idle", who |-> NoUser]
IdleLogout == [pc |-> "idle"]
IdleRegister == [pc |-> "idle", who |-> NoUser]
IdleCheck == [pc |-> "idle"]

\* no run is in flight
NoneSince == [load |-> {}, sync |-> {}, sync2 |-> {}]

\* The store once App.tsx has awaited checkAuthStatus: the user of the kept
\* session, or none.
Init ==
    /\ user \in Users \cup {NoUser}
    /\ session = user
    /\ authLoading = FALSE
    /\ authError = Null
    /\ notes = <<>>
    /\ isLoading = FALSE
    /\ error = Null
    /\ syncStatus = "idle"
    /\ stored = Absent
    /\ remote = {}
    /\ nextId = 1
    /\ now = 0
    /\ added = 0
    /\ ops = 0
    /\ mounted = FALSE
    /\ searchQuery = NoQuery
    /\ timers = 0
    /\ removed = {}
    /\ addedSince = NoneSince
    /\ addT = IdleAdd
    /\ rmT = IdleRm
    /\ loadT = IdleLoad
    /\ syncT = IdleSync
    /\ syncT2 = IdleSync
    /\ loginT = IdleLogin
    /\ logoutT = IdleLogout
    /\ registerT = IdleRegister
    /\ checkT = IdleCheck

\* one more thunk is dispatched
Dispatch ==
    /\ ops < MaxOps
    /\ ops' = ops + 1

\* Date.now() and new Date(): the value read last, or a later one.  Only the
\* order and the equality of the times read matter.
Clock == {now, now + 1}

----------------------------------------------------------------------------
\* addNote

\* the note addNote builds before it calls the backend
NewNote(noteData, c, t) ==
    [Note(NoId, IF user # NoUser THEN user ELSE "offline", c, t, FALSE, NoId)
        EXCEPT !.text = noteData]

\* OfflineNote reading the clock once for id and once more for localId
OfflineNoteTwoReads(note, t) ==
    [note EXCEPT !.id = OfflineId(t), !.localId = OfflineId(t + 1), !.isOffline = TRUE]

\* the note addNote returns when there is no user or the insert failed
OfflineNote(note, t) ==
    [note EXCEPT !.id = OfflineId(t), !.localId = OfflineId(t), !.isOffline = TRUE]

\* the runs in flight have one more note added since they started
SinceAdded(c) ==
    [load  |-> IF loadT.pc # "idle" THEN addedSince.load \cup {c} ELSE {},
     sync  |-> IF syncT.pc # "idle" THEN addedSince.sync \cup {c} ELSE {},
     sync2 |-> IF syncT2.pc # "idle" THEN addedSince.sync2 \cup {c} ELSE {}]

\* AddNoteFulfilled putting the note at the end of the list
AddNoteFulfilledPush(payload) ==
    /\ notes' = notes \o <<payload>>
    /\ stored' = Item(notes')
    /\ addedSince' = SinceAdded(payload.content)

\* addNote.fulfilled
AddNoteFulfilled(payload) ==
    /\ notes' = <<payload>> \o notes
    /\ stored' = Item(notes')
    /\ addedSince' = SinceAdded(payload.content)

\* addNote dispatched with no user: no await, the offline note is returned
AddNoteNoUserWith(noteData) ==
    /\ addT.pc = "idle"
    /\ UNCHANGED <<screenVars, removed>>
    /\ Dispatch
    /\ user = NoUser
    /\ added' = added + 1
    /\ \E t \in Clock :
          /\ now' = t
          /\ AddNoteFulfilled(OfflineNote(NewNote(noteData, added + 1, t), t))
    /\ UNCHANGED <<authVars, isLoading, error, syncStatus, remote, nextId,
                   thunkVars>>

AddNoteNoUser == AddNoteNoUserWith(PlainText)

\* addNote dispatched with a user: createNote(note) is sent
AddNoteStartWith(noteData) ==
    /\ addT.pc = "idle"
    /\ UNCHANGED <<screenVars, removed, addedSince>>
    /\ Dispatch
    /\ user # NoUser
    /\ added' = added + 1
    /\ \E t \in Clock :
          /\ now' = t
          /\ addT' = [IdleAdd EXCEPT !.pc = "call",
                                     !.note = NewNote(noteData, added + 1, t)]
    /\ UNCHANGED <<authVars, notes, isLoading, error, syncStatus, stored, remote,
                   nextId, rmT, loadT, syncT, syncT2, loginT, logoutT,
                   registerT, checkT>>

AddNoteStart == AddNoteStartWith(PlainText)

\* the backend serves createNote: it stores the row, or returns an error
AddNoteRemote ==
    /\ addT.pc = "call"
    /\ UNCHANGED <<screenVars, removed, addedSince>>
    /\ UNCHANGED ops
    /\ \/ /\ CanInsert(addT.note.user_id)
          /\ remote' = remote \cup {InsertedRow(addT.note)}
          /\ nextId' = nextId + 1
          /\ addT' = [addT EXCEPT !.pc = "resp", !.ok = TRUE,
                                  !.data = RowAsNote(InsertedRow(addT.note))]
       \/ /\ addT' = [addT EXCEPT !.pc = "resp", !.ok = FALSE]
          /\ UNCHANGED <<remote, nextId>>
    /\ UNCHANGED <<authVars, notes, isLoading, error, syncStatus, stored, now,
                   added, rmT, loadT, syncT, syncT2, loginT, logoutT,
                   registerT, checkT>>

\* the row arrives and addNote.fulfilled runs
AddNoteOnline ==
    /\ addT.pc = "resp"
    /\ UNCHANGED <<screenVars, removed>>
    /\ addT.ok
    /\ UNCHANGED ops
    /\ AddNoteFulfilled(addT.data)
    /\ addT' = IdleAdd
    /\ UNCHANGED <<authVars, isLoading, error, syncStatus, remote, nextId, now,
                   added, rmT, loadT, syncT, syncT2, loginT, logoutT,
                   registerT, checkT>>

\* the error arrives, is caught, and addNote.fulfilled runs with the offline
\* note
AddNoteOffline ==
    /\ addT.pc = "resp"
    /\ UNCHANGED <<screenVars, removed>>
    /\ ~addT.ok
    /\ UNCHANGED ops
    /\ \E t \in Clock :
          /\ now' = t
          /\ AddNoteFulfilled(OfflineNote(addT.note, t))
    /\ addT' = IdleAdd
    /\ UNCHANGED <<authVars, isLoading, error, syncStatus, remote, nextId,
                   added, rmT, loadT, syncT, syncT2, loginT, logoutT,
                   registerT, checkT>>

----------------------------------------------------------------------------
\* removeNote

\* FoundOnline not looking at the offline flag
FoundAny(noteId) == \E i \in 1..Len(notes) : notes[i].id = noteId

\* state.notes.notes.find(n => n.id === noteId) found a note that is not offline
FoundOnline(noteId) ==
    \E i \in 1..Len(notes) :
        /\ notes[i].id = noteId
        /\ \A j \in 1..(i - 1) : notes[j].id # noteId
        /\ ~notes[i].isOffline

\* state.notes.filter(note => note.id !== action.payload)
WithoutId(list, noteId) == SelectSeq(list, LAMBDA n : n.id # noteId)

\* removeNote.fulfilled
RemoveNoteFulfilled(noteId) ==
    /\ notes' = WithoutId(notes, noteId)
    /\ stored' = Item(notes')
    /\ removed' = removed \cup {noteId}
    /\ UNCHANGED addedSince

\* the identifiers of the notes in the list
ListedIds == {notes[i].id : i \in 1..Len(notes)}

\* the identifiers removeNote is dispatched with
RemovableIds == ListedIds \cup {MissingId}

\* removeNote of an offline note or of an identifier not in the list: no await
RemoveNoteLocal(noteId) ==
    /\ rmT.pc = "idle"
    /\ UNCHANGED screenVars
    /\ Dispatch
    /\ ~FoundOnline(noteId)
    /\ RemoveNoteFulfilled(noteId)
    /\ UNCHANGED <<authVars, isLoading, error, syncStatus, remote, nextId, now,
                   added, thunkVars>>

\* removeNote of a note that is not offline: deleteNote(noteId) is sent
RemoveNoteStart(noteId) ==
    /\ rmT.pc = "idle"
    /\ UNCHANGED <<screenVars, removed, addedSince>>
    /\ Dispatch
    /\ FoundOnline(noteId)
    /\ rmT' = [pc |-> "call", noteId |-> noteId]
    /\ UNCHANGED <<authVars, notes, isLoading, error, syncStatus, stored, remote,
                   nextId, now, added, addT, loadT, syncT, syncT2, loginT, logoutT,
                   registerT, checkT>>

\* the backend serves deleteNote, or returns an error
RemoveNoteRemote ==
    /\ rmT.pc = "call"
    /\ UNCHANGED <<screenVars, removed, addedSince>>
    /\ UNCHANGED ops
    /\ \/ remote' = DeleteRows(rmT.noteId)
       \/ UNCHANGED remote
    /\ rmT' = [rmT EXCEPT !.pc = "resp"]
    /\ UNCHANGED <<authVars, notes, isLoading, error, syncStatus, stored, nextId,
                   now, added, addT, loadT, syncT, syncT2, loginT, logoutT,
                   registerT, checkT>>

\* the answer arrives and removeNote.fulfilled runs
RemoveNoteSettle ==
    /\ rmT.pc = "resp"
    /\ UNCHANGED screenVars
    /\ UNCHANGED ops
    /\ RemoveNoteFulfilled(rmT.noteId)
    /\ rmT' = IdleRm
    /\ UNCHANGED <<authVars, isLoading, error, syncStatus, remote, nextId, now,
                   added, addT, loadT, syncT, syncT2, loginT, logoutT,
                   registerT, checkT>>

----------------------------------------------------------------------------
\* loadNotes

\* MergeLoaded keeping every note of the slot
MergeLoadedAll(onlineNotes, slot) == onlineNotes \o ParseStored(slot)

\* [...onlineNotes, ...filteredOfflineNotes]
MergeLoaded(onlineNotes, slot) == onlineNotes \o FilterOffline(ParseStored(slot))

\* LoadResult keeping only the offline notes of the slot after a failed fetch
LoadResultOfflineOnly(fetched, ok, data, slot) ==
    IF fetched /\ ok THEN MergeLoaded(data, slot)
    ELSE IF fetched THEN FilterOffline(ParseStored(slot))
    ELSE ParseStored(slot)

\* what loadNotes returns, given the answer of fetchNotes and the slot it reads
LoadResult(fetched, ok, data, slot) ==
    IF fetched /\ ok THEN MergeLoaded(data, slot) ELSE ParseStored(slot)

\* loadNotes.pending; with a user fetchNotes() is sent, without one the slot
\* is read
LoadNotesPending ==
    /\ loadT.pc = "idle"
    /\ Dispatch
    /\ isLoading' = TRUE
    /\ error' = Null
    /\ loadT' = [IdleLoad EXCEPT !.pc = IF user # NoUser THEN "fetch" ELSE "read"]
    /\ addedSince' = [addedSince EXCEPT !.load = {}]
    /\ UNCHANGED <<authVars, notes, syncStatus, stored, remote, nextId, now, added,
                   addT, rmT, syncT, syncT2, loginT, logoutT,
                   registerT, checkT>>

\* loadNotes dispatched
LoadNotesStart ==
    /\ LoadNotesPending
    /\ UNCHANGED <<screenVars, removed>>

\* the backend serves fetchNotes, or returns an error
LoadNotesFetch ==
    /\ loadT.pc = "fetch"
    /\ UNCHANGED <<screenVars, removed, addedSince>>
    /\ UNCHANGED ops
    /\ \/ \E data \in FetchResults :
             loadT' = [loadT EXCEPT !.pc = "fetched", !.ok = TRUE, !.data = data]
       \/ loadT' = [loadT EXCEPT !.pc = "fetched", !.ok = FALSE]
    /\ UNCHANGED <<authVars, notes, isLoading, error, syncStatus, stored, remote,
                   nextId, now, added, addT, rmT, syncT, syncT2, loginT, logoutT,
                   registerT, checkT>>

\* AsyncStorage.getItem('notes') is served
LoadNotesRead ==
    /\ loadT.pc \in {"read", "fetched"}
    /\ UNCHANGED <<screenVars, removed, addedSince>>
    /\ UNCHANGED ops
    /\ loadT' = [loadT EXCEPT
                    !.pc = "settle",
                    !.result = LoadResult(loadT.pc = "fetched", loadT.ok, loadT.data, stored)]
    /\ UNCHANGED <<authVars, notes, isLoading, error, syncStatus, stored, remote,
                   nextId, now, added, addT, rmT, syncT, syncT2, loginT, logoutT,
                   registerT, checkT>>

\* loadNotes.fulfilled
LoadNotesSettle ==
    /\ loadT.pc = "settle"
    /\ UNCHANGED <<screenVars, removed>>
    /\ UNCHANGED ops
    /\ isLoading' = FALSE
    /\ notes' = loadT.result
    /\ stored' = Item(loadT.result)
    /\ loadT' = IdleLoad
    /\ addedSince' = [addedSince EXCEPT !.load = {}]
    /\ UNCHANGED <<authVars, error, syncStatus, remote, nextId, now, added,
                   addT, rmT, syncT, syncT2, loginT, logoutT,
                   registerT, checkT>>

----------------------------------------------------------------------------
\* syncNotes and syncOfflineNotes

\* OfflineNotesFor leaving out the notes of which the table already holds a row
OfflineNotesNotInRemote(list, u) ==
    LET off == SelectSeq(list, LAMBDA n : n.isOffline /\ \A r \in remote : r.content # n.content)
    IN  [i \in 1..Len(off) |-> [off[i] EXCEPT !.user_id = u]]

\* OfflineNotesFor sending the notes under the user_id they were created with
OfflineNotesKeepOwner(list, u) == FilterOffline(list)

\* notes.filter(note => note.isOffline).map(note => ({...note, user_id: user.id}))
OfflineNotesFor(list, u) ==
    LET off == FilterOffline(list)
    IN  [i \in 1..Len(off) |-> [off[i] EXCEPT !.user_id = u]]

\* results.push({ localId: note.localId, data, error })
PushResult(results, note, ok) == Append(results, [localId |-> note.localId, ok |-> ok])

\* SyncedIds counting only the inserts that returned a row
SyncedIdsInserted(results) ==
    {results[i].localId : i \in {j \in 1..Len(results) : results[j].ok}}

\* syncedNotes.map(n => n.localId)
SyncedIds(results) == {results[i].localId : i \in 1..Len(results)}

\* notes.filter(n => n.isOffline && !syncedIds.includes(n.localId))
UnsyncedNotes(list, results) ==
    SelectSeq(list, LAMBDA n : n.isOffline /\ n.localId \notin SyncedIds(results))

\* SyncResult keeping the offline notes of the list
SyncResultKeepsOffline(onlineNotes, list, results) == onlineNotes \o FilterOffline(list)

\* [...(onlineNotes || []), ...unsyncedNotes]
SyncResult(onlineNotes, list, results) == onlineNotes \o UnsyncedNotes(list, results)

\* AfterInserts not awaiting the inserts
AfterInsertsNoAwait(queue) == "fetch"

\* where syncNotes stands with queue left to insert
AfterInserts(queue) == IF queue = <<>> THEN "fetch" ELSE "insert"

\* The syncNotes thunks in flight.  The sync button is the only thing that
\* keeps a second run from starting; two records hold up to two runs, which
\* is as many as MaxOps dispatches can have in flight at once.
Runs == {1, 2}
Run(r) == IF r = 1 THEN syncT ELSE syncT2
SetRun(r, v) ==
    IF r = 1 THEN syncT' = v /\ syncT2' = syncT2
             ELSE syncT2' = v /\ syncT' = syncT

\* the notes added since run r started
SinceRun(r) == IF r = 1 THEN addedSince.sync ELSE addedSince.sync2
ClearSince(r) ==
    addedSince' = IF r = 1 THEN [addedSince EXCEPT !.sync = {}]
                           ELSE [addedSince EXCEPT !.sync2 = {}]

\* the effect of NotesScreen on syncStatus: when a render sees syncStatus
\* turned 'success', setTimeout(() => dispatch(setSyncStatus('idle')), 2000)
TimersAfter(before, after) ==
    IF mounted /\ before # "success" /\ after = "success" THEN timers + 1 ELSE timers

\* syncNotes dispatched with no user: pending, then rejected with a value
SyncNotesNoUser ==
    /\ syncT.pc = "idle"
    /\ UNCHANGED <<screenVars, removed, addedSince>>
    /\ Dispatch
    /\ user = NoUser
    /\ syncStatus' = "error"
    /\ error' = "Rejected"
    /\ UNCHANGED <<authVars, notes, isLoading, stored, remote, nextId, now, added,
                   thunkVars>>

\* syncNotes.pending of run r; the offline notes of the list are handed to
\* syncOfflineNotes
SyncNotesStartRun(r) ==
    /\ Run(r).pc = "idle"
    /\ UNCHANGED <<screenVars, removed>>
    /\ Dispatch
    /\ user # NoUser
    /\ syncStatus' = "syncing"
    /\ SetRun(r, [IdleSync EXCEPT
                    !.pc = AfterInserts(OfflineNotesFor(notes, user)),
                    !.user = user,
                    !.notes = notes,
                    !.queue = OfflineNotesFor(notes, user)])
    /\ ClearSince(r)
    /\ UNCHANGED <<authVars, notes, isLoading, error, stored, remote, nextId, now,
                   added, addT, rmT, loadT, loginT, logoutT,
                   registerT, checkT>>

\* syncNotes dispatched while no other run is in flight
SyncNotesStart == SyncNotesStartRun(1)

\* the backend serves the createNote of the next offline note (sent without
\* id, isOffline and localId): it stores the row, or returns an error
SyncNotesInsert ==
    \E r \in Runs :
        /\ Run(r).pc = "insert"
        /\ UNCHANGED <<screenVars, removed, addedSince>>
        /\ UNCHANGED ops
        /\ LET run == Run(r)
               note == Head(run.queue)
           IN  \/ /\ CanInsert(note.user_id)
                  /\ remote' = remote \cup {InsertedRow(note)}
                  /\ nextId' = nextId + 1
                  /\ SetRun(r, [run EXCEPT
                                  !.queue = Tail(run.queue),
                                  !.results = PushResult(run.results, note, TRUE),
                                  !.pc = AfterInserts(Tail(run.queue))])
               \/ /\ SetRun(r, [run EXCEPT
                                  !.queue = Tail(run.queue),
                                  !.results = PushResult(run.results, note, FALSE),
                                  !.pc = AfterInserts(Tail(run.queue))])
                  /\ UNCHANGED <<remote, nextId>>
        /\ UNCHANGED <<authVars, notes, isLoading, error, syncStatus, stored, now,
                       added, addT, rmT, loadT, loginT, logoutT,
                   registerT, checkT>>

\* the backend serves fetchNotes, or returns an error
SyncNotesFetch ==
    \E r \in Runs :
        /\ Run(r).pc = "fetch"
        /\ UNCHANGED <<screenVars, removed, addedSince>>
        /\ UNCHANGED ops
        /\ \/ \E data \in FetchResults :
                 SetRun(r, [Run(r) EXCEPT !.pc = "settle", !.ok = TRUE, !.data = data])
           \/ SetRun(r, [Run(r) EXCEPT !.pc = "settle", !.ok = FALSE])
        /\ UNCHANGED <<authVars, notes, isLoading, error, syncStatus, stored, remote,
                       nextId, now, added, addT, rmT, loadT, loginT, logoutT,
                   registerT, checkT>>

\* syncNotes.fulfilled
SyncNotesFulfilled ==
    \E r \in Runs :
        /\ Run(r).pc = "settle"
        /\ UNCHANGED <<mounted, searchQuery, removed>>
        /\ UNCHANGED ops
        /\ Run(r).ok
        /\ syncStatus' = "success"
        /\ timers' = TimersAfter(syncStatus, "success")
        /\ notes' = SyncResult(Run(r).data, Run(r).notes, Run(r).results)
        /\ stored' = Item(notes')
        /\ SetRun(r, IdleSync)
        /\ ClearSince(r)
        /\ UNCHANGED <<authVars, isLoading, error, remote, nextId, now, added,
                       addT, rmT, loadT, loginT, logoutT,
                   registerT, checkT>>

\* SyncNotesRejected emptying the list and the slot
SyncNotesRejectedClears ==
    \E r \in Runs :
        /\ Run(r).pc = "settle"
        /\ UNCHANGED <<screenVars, removed>>
        /\ UNCHANGED ops
        /\ ~Run(r).ok
        /\ syncStatus' = "error"
        /\ error' = "Rejected"
        /\ notes' = <<>>
        /\ stored' = Item(notes')
        /\ SetRun(r, IdleSync)
        /\ ClearSince(r)
        /\ UNCHANGED <<authVars, isLoading, remote, nextId, now, added,
                       addT, rmT, loadT, loginT, logoutT,
                   registerT, checkT>>

\* syncNotes.rejected: rejectWithValue leaves action.error.message 'Rejected'
SyncNotesRejected ==
    \E r \in Runs :
        /\ Run(r).pc = "settle"
        /\ UNCHANGED <<screenVars, removed>>
        /\ UNCHANGED ops
        /\ ~Run(r).ok
        /\ syncStatus' = "error"
        /\ error' = "Rejected"
        /\ SetRun(r, IdleSync)
        /\ ClearSince(r)
        /\ UNCHANGED <<authVars, notes, isLoading, stored, remote, nextId, now, added,
                       addT, rmT, loadT, loginT, logoutT,
                   registerT, checkT>>

----------------------------------------------------------------------------
\* loginUser and logoutUser

\* loginUser.pending; signIn(email, password) is sent
LoginStart ==
    /\ loginT.pc = "idle"
    /\ UNCHANGED <<screenVars, removed, addedSince>>
    /\ Dispatch
    /\ \E u \in Users : loginT' = [pc |-> "call", who |-> u]
    /\ authLoading' = TRUE
    /\ authError' = Null
    /\ UNCHANGED <<user, session, notes, isLoading, error, syncStatus, stored,
                   remote, nextId, now, added, addT, rmT, loadT, syncT, syncT2, logoutT,
                   registerT, checkT>>

\* signIn answers with the user and loginUser.fulfilled runs
LoginFulfilled ==
    /\ loginT.pc = "call"
    /\ UNCHANGED <<screenVars, removed, addedSince>>
    /\ UNCHANGED ops
    /\ session' = loginT.who
    /\ user' = loginT.who
    /\ authLoading' = FALSE
    /\ loginT' = IdleLogin
    /\ UNCHANGED <<authError, notes, isLoading, error, syncStatus, stored, remote,
                   nextId, now, added, addT, rmT, loadT, syncT, syncT2, logoutT,
                   registerT, checkT>>

\* signIn answers with an error and loginUser.rejected runs
LoginRejected ==
    /\ loginT.pc = "call"
    /\ UNCHANGED <<screenVars, removed, addedSince>>
    /\ UNCHANGED ops
    /\ authLoading' = FALSE
    /\ authError' = "Login failed"
    /\ loginT' = IdleLogin
    /\ UNCHANGED <<user, session, notes, isLoading, error, syncStatus, stored,
                   remote, nextId, now, added, addT, rmT, loadT, syncT, syncT2, logoutT,
                   registerT, checkT>>

\* logoutUser dispatched; signOut() is sent
LogoutStart ==
    /\ logoutT.pc = "idle"
    /\ UNCHANGED <<screenVars, removed, addedSince>>
    /\ Dispatch
    /\ logoutT' = [pc |-> "call"]
    /\ UNCHANGED <<authVars, notes, isLoading, error, syncStatus, stored, remote,
                   nextId, now, added, addT, rmT, loadT, syncT, syncT2, loginT,
                   registerT, checkT>>

\* signOut answers without error: the client session is gone and
\* AsyncStorage.removeItem('notes') is issued
LogoutSignedOut ==
    /\ logoutT.pc = "call"
    /\ UNCHANGED <<screenVars, removed, addedSince>>
    /\ UNCHANGED ops
    /\ session' = NoUser
    /\ stored' = Absent
    /\ logoutT' = [pc |-> "settle"]
    /\ UNCHANGED <<user, authLoading, authError, notes, isLoading, error,
                   syncStatus, remote, nextId, now, added, addT, rmT, loadT, syncT, syncT2,
                   loginT,
                   registerT, checkT>>

\* signOut answers with an error: logoutUser is rejected, no reducer handles it
LogoutRejected ==
    /\ logoutT.pc = "call"
    /\ UNCHANGED <<screenVars, removed, addedSince>>
    /\ UNCHANGED ops
    /\ logoutT' = IdleLogout
    /\ UNCHANGED <<authVars, notes, isLoading, error, syncStatus, stored, remote,
                   nextId, now, added, addT, rmT, loadT, syncT, syncT2, loginT,
                   registerT, checkT>>

\* logoutUser.fulfilled; with no user App.tsx renders AuthScreen in place of
\* NotesScreen
LogoutFulfilled ==
    /\ logoutT.pc = "settle"
    /\ mounted' = FALSE
    /\ UNCHANGED <<searchQuery, timers, removed, addedSince>>
    /\ UNCHANGED ops
    /\ user' = NoUser
    /\ authError' = Null
    /\ logoutT' = IdleLogout
    /\ UNCHANGED <<session, authLoading, notes, isLoading, error, syncStatus,
                   stored, remote, nextId, now, added, addT, rmT, loadT, syncT, syncT2,
                   loginT,
                   registerT, checkT>>

\* signIn answers with neither an error nor a user: loginUser.fulfilled runs
\* with no payload
LoginFulfilledNoUser ==
    /\ loginT.pc = "call"
    /\ UNCHANGED <<screenVars, removed, addedSince>>
    /\ UNCHANGED ops
    /\ user' = NoUser
    /\ authLoading' = FALSE
    /\ loginT' = IdleLogin
    /\ UNCHANGED <<session, authError, notes, isLoading, error, syncStatus, stored, remote,
                   nextId, now, added, addT, rmT, loadT, syncT, syncT2,
                   logoutT, registerT, checkT>>

----------------------------------------------------------------------------
\* registerUser, checkAuthStatus and clearError

\* registerUser.pending; signUp(email, password) is sent
RegisterStart ==
    /\ registerT.pc = "idle"
    /\ UNCHANGED <<screenVars, removed, addedSince>>
    /\ Dispatch
    /\ \E u \in Users : registerT' = [pc |-> "call", who |-> u]
    /\ authLoading' = TRUE
    /\ authError' = Null
    /\ UNCHANGED <<user, session, notes, isLoading, error, syncStatus, stored, remote,
                   nextId, now, added, addT, rmT, loadT, syncT, syncT2,
                   loginT, logoutT, checkT>>

\* signUp answers with the new user and registerUser.fulfilled runs; the
\* client is signed in at once, or not before the address is confirmed
RegisterFulfilled ==
    /\ registerT.pc = "call"
    /\ UNCHANGED <<screenVars, removed, addedSince>>
    /\ UNCHANGED ops
    /\ session' \in {registerT.who, session}
    /\ user' = registerT.who
    /\ authLoading' = FALSE
    /\ registerT' = IdleRegister
    /\ UNCHANGED <<authError, notes, isLoading, error, syncStatus, stored, remote,
                   nextId, now, added, addT, rmT, loadT, syncT, syncT2,
                   loginT, logoutT, checkT>>

\* signUp answers with neither an error nor a user
RegisterFulfilledNoUser ==
    /\ registerT.pc = "call"
    /\ UNCHANGED <<screenVars, removed, addedSince>>
    /\ UNCHANGED ops
    /\ user' = NoUser
    /\ authLoading' = FALSE
    /\ registerT' = IdleRegister
    /\ UNCHANGED <<session, authError, notes, isLoading, error, syncStatus, stored, remote,
                   nextId, now, added, addT, rmT, loadT, syncT, syncT2,
                   loginT, logoutT, checkT>>

\* RegisterRejected dropping the user
RegisterRejectedDropsUser ==
    /\ registerT.pc = "call"
    /\ UNCHANGED <<screenVars, removed, addedSince>>
    /\ UNCHANGED ops
    /\ user' = NoUser
    /\ authLoading' = FALSE
    /\ authError' = "Registration failed"
    /\ registerT' = IdleRegister
    /\ UNCHANGED <<session, notes, isLoading, error, syncStatus, stored, remote,
                   nextId, now, added, addT, rmT, loadT, syncT, syncT2,
                   loginT, logoutT, checkT>>

\* signUp answers with an error and registerUser.rejected runs
RegisterRejected ==
    /\ registerT.pc = "call"
    /\ UNCHANGED <<screenVars, removed, addedSince>>
    /\ UNCHANGED ops
    /\ authLoading' = FALSE
    /\ authError' = "Registration failed"
    /\ registerT' = IdleRegister
    /\ UNCHANGED <<user, session, notes, isLoading, error, syncStatus, stored, remote,
                   nextId, now, added, addT, rmT, loadT, syncT, syncT2,
                   loginT, logoutT, checkT>>

\* checkAuthStatus dispatched; getCurrentUser() is sent.  No reducer handles
\* checkAuthStatus.pending.
CheckAuthStart ==
    /\ checkT.pc = "idle"
    /\ UNCHANGED <<screenVars, removed, addedSince>>
    /\ Dispatch
    /\ checkT' = [pc |-> "call"]
    /\ UNCHANGED <<authVars, notes, isLoading, error, syncStatus, stored, remote,
                   nextId, now, added, addT, rmT, loadT, syncT, syncT2,
                   loginT, logoutT, registerT>>

\* getUser answers with the user of the client's session, or with none, and
\* checkAuthStatus.fulfilled runs
CheckAuthFulfilled ==
    /\ checkT.pc = "call"
    /\ UNCHANGED <<screenVars, removed, addedSince>>
    /\ UNCHANGED ops
    /\ user' = session
    /\ authLoading' = FALSE
    /\ checkT' = IdleCheck
    /\ UNCHANGED <<session, authError, notes, isLoading, error, syncStatus, stored, remote,
                   nextId, now, added, addT, rmT, loadT, syncT, syncT2,
                   loginT, logoutT, registerT>>

\* getUser answers with an error and checkAuthStatus.rejected runs
CheckAuthRejected ==
    /\ checkT.pc = "call"
    /\ UNCHANGED <<screenVars, removed, addedSince>>
    /\ UNCHANGED ops
    /\ user' = NoUser
    /\ authLoading' = FALSE
    /\ checkT' = IdleCheck
    /\ UNCHANGED <<session, authError, notes, isLoading, error, syncStatus, stored, remote,
                   nextId, now, added, addT, rmT, loadT, syncT, syncT2,
                   loginT, logoutT, registerT>>

\* clearError of authSlice, dispatched by AuthScreen when it has shown the
\* error
ClearAuthError ==
    /\ authError # Null
    /\ authError' = Null
    /\ UNCHANGED <<user, session, authLoading, notes, isLoading, error, syncStatus,
                   stored, remote, nextId, now, added, ops, screenVars, removed, addedSince,
                   thunkVars>>

----------------------------------------------------------------------------
\* Specifications

\* The store on its own: every thunk may be dispatched in every state.

\* the notes thunks, with users logging in
NextNotes ==
    \/ AddNoteNoUser \/ AddNoteStart \/ AddNoteRemote \/ AddNoteOnline
    \/ AddNoteOffline
    \/ \E noteId \in RemovableIds : RemoveNoteLocal(noteId)
    \/ \E noteId \in RemovableIds : RemoveNoteStart(noteId)
    \/ RemoveNoteRemote \/ RemoveNoteSettle
    \/ LoadNotesStart \/ LoadNotesFetch \/ LoadNotesRead \/ LoadNotesSettle
    \/ SyncNotesNoUser \/ SyncNotesStart \/ SyncNotesInsert \/ SyncNotesFetch
    \/ SyncNotesFulfilled \/ SyncNotesRejected
    \/ LoginStart \/ LoginFulfilled \/ LoginRejected

NextLogout ==
    \/ LogoutStart \/ LogoutSignedOut \/ LogoutRejected \/ LogoutFulfilled

Next == NextNotes \/ NextLogout

SpecNotes == Init /\ [][NextNotes]_vars

Spec == Init /\ [][Next]_vars

----------------------------------------------------------------------------
\* The application: thunks are dispatched by the screens App.tsx shows.

\* NotesShown without the test of the user
NotesShownToAll == ~authLoading

\* App.tsx shows NotesScreen
NotesShown == user # NoUser /\ ~authLoading

\* NotesScreen mounts and its effect dispatches loadNotes
MountNotesScreen ==
    /\ NotesShown
    /\ ~mounted
    /\ mounted' = TRUE
    /\ timers' = IF syncStatus = "success" THEN timers + 1 ELSE timers
    /\ UNCHANGED <<searchQuery, removed>>
    /\ LoadNotesPending

\* filteredNotes: the notes NotesScreen displays
Matches(note, query) ==
    \/ Includes(ToLowerCase(note.text.title), query)
    \/ Includes(ToLowerCase(note.text.description), query)
    \/ Includes(ToLowerCase(note.text.tags), query)

FilteredNotes ==
    IF searchQuery = NoQuery THEN notes
    ELSE SelectSeq(notes, LAMBDA n : Matches(n, ToLowerCase(searchQuery)))

DisplayedIds == {FilteredNotes[i].id : i \in 1..Len(FilteredNotes)}

\* what is typed into the fields of the add modal
Forms ==
    { Text(Empty, <<"a">>, Empty),
      Text(<<Blank>>, Empty, Empty),
      Text(<<Blank, "a", Blank>>, Empty, Empty),
      Text(<<"b", "A">>, Empty, Empty),
      Text(<<"b">>, <<"A">>, Empty),
      Text(<<"b">>, Empty, <<"a", Blank>>),
      Text(<<"b">>, Empty, Empty) }

\* what is typed into the search field
Queries == {Empty, <<"a">>, <<"A">>, <<"b", "a">>}

\* handleAddNote with the fields filled from forms; with no title an alert is
\* shown and nothing is dispatched
HandleAddNoteFrom(forms) ==
    /\ mounted
    /\ \E f \in forms :
          IF Trim(f.title) = Empty
          THEN UNCHANGED vars
          ELSE AddNoteStartWith(Text(Trim(f.title), Trim(f.description), Trim(f.tags)))

\* handleAddNote
HandleAddNote == HandleAddNoteFrom({PlainText})

\* handleAddNote with any of Forms typed in
HandleAddNoteAny ==
    /\ added < InitialAdded + MaxSaves
    /\ HandleAddNoteFrom(Forms)

\* setSearchQuery
SetSearchQuery(text) ==
    /\ searchQuery' = text
    /\ UNCHANGED <<authVars, notes, isLoading, error, syncStatus, stored, remote,
                   nextId, now, added, ops, mounted, timers, removed, addedSince, thunkVars>>

\* onChangeText of the search field, and its clear button
HandleSearch == mounted /\ \E text \in Queries : SetSearchQuery(text)

\* handleDeleteNote, confirmed, for a note on display; the list is not
\* rendered while state.notes.isLoading
HandleDeleteNote ==
    /\ mounted
    /\ ~isLoading
    /\ \E noteId \in DisplayedIds : RemoveNoteLocal(noteId) \/ RemoveNoteStart(noteId)

\* the record a syncNotes run dispatched now is kept in
FreeRun(r) == Run(r).pc = "idle" /\ \A q \in Runs : q < r => Run(q).pc # "idle"

\* handleSync; the button is disabled while syncStatus is 'syncing'
HandleSync ==
    /\ mounted
    /\ syncStatus # "syncing"
    /\ \E r \in Runs : FreeRun(r) /\ SyncNotesStartRun(r)

\* a timer set by the syncStatus effect fires: dispatch(setSyncStatus('idle'))
ResetTimer ==
    /\ timers > 0
    /\ timers' = timers - 1
    /\ syncStatus' = "idle"
    /\ UNCHANGED <<authVars, notes, isLoading, error, stored, remote, nextId, now,
                   added, ops, mounted, searchQuery, removed, addedSince, thunkVars>>

\* handleLogout, confirmed
HandleLogout == mounted /\ LogoutStart

\* handleSubmit of AuthScreen, shown while there is no user
HandleSubmit ==
    /\ user = NoUser
    /\ ~authLoading
    /\ LoginStart

\* a call that was sent is answered and its thunk settles
Responses ==
    \/ AddNoteRemote \/ AddNoteOnline \/ AddNoteOffline
    \/ RemoveNoteRemote \/ RemoveNoteSettle
    \/ LoadNotesFetch \/ LoadNotesRead \/ LoadNotesSettle
    \/ SyncNotesInsert \/ SyncNotesFetch \/ SyncNotesFulfilled \/ SyncNotesRejected
    \/ LoginFulfilled \/ LoginRejected

NextAppNotes ==
    \/ MountNotesScreen \/ HandleAddNote \/ HandleDeleteNote \/ HandleSync
    \/ HandleSubmit
    \/ Responses
    \/ ResetTimer

NextApp ==
    \/ NextAppNotes
    \/ HandleLogout \/ LogoutSignedOut \/ LogoutRejected \/ LogoutFulfilled

\* the application without logout
SpecAppNotes == Init /\ [][NextAppNotes]_vars

SpecApp == Init /\ [][NextApp]_vars

\* The application with NotesScreen on display: a user is logged in, the
\* effect of the mount has dispatched loadNotes and loadNotes has settled.
\* The remote table holds no row or a row of the user from an earlier add;
\* the slot held no note or a note whose insert had failed.  SpecAppNotes
\* reaches each of these states, the counters aside.
KeptRow(u) == Row(RowId(1), u, 1, 0)
KeptOffline(u) == OfflineNote(Note(NoId, u, 2, 0, FALSE, NoId), 0)

InitMounted ==
    /\ user \in Users
    /\ session = user
    /\ authLoading = FALSE
    /\ authError = Null
    /\ remote \in {{}, {KeptRow(user)}}
    /\ \E kept \in {<<>>, <<KeptOffline(user)>>} :
          notes = [i \in 1..Cardinality(remote) |-> RowAsNote(KeptRow(user))] \o kept
    /\ stored = Item(notes)
    /\ isLoading = FALSE
    /\ error = Null
    /\ syncStatus = "idle"
    /\ nextId = 2
    /\ now = 0
    /\ added = InitialAdded
    /\ ops = 0
    /\ mounted = TRUE
    /\ searchQuery = NoQuery
    /\ timers = 0
    /\ removed = {}
    /\ addedSince = NoneSince
    /\ addT = IdleAdd
    /\ rmT = IdleRm
    /\ loadT = IdleLoad
    /\ syncT = IdleSync
    /\ syncT2 = IdleSync
    /\ loginT = IdleLogin
    /\ logoutT = IdleLogout
    /\ registerT = IdleRegister
    /\ checkT = IdleCheck

SpecMounted == InitMounted /\ [][NextApp]_vars

\* NotesScreen used to add notes of different texts and to search them
NextSearch ==
    \/ HandleAddNoteAny \/ AddNoteRemote \/ AddNoteOnline \/ AddNoteOffline
    \/ HandleSearch

\* one user's screen
InitSearch == InitMounted /\ user = "u1"

SpecSearch == InitSearch /\ [][NextSearch]_vars

\* The session: the store as configureStore makes it, the supabase client
\* holding the session it has kept from an earlier start, or none.
InitAuth ==
    /\ user = NoUser
    /\ session \in Users \cup {NoUser}
    /\ authLoading = FALSE
    /\ authError = Null
    /\ notes = <<>>
    /\ isLoading = FALSE
    /\ error = Null
    /\ syncStatus = "idle"
    /\ stored = Absent
    /\ remote = {}
    /\ nextId = 1
    /\ now = 0
    /\ added = 0
    /\ ops = 0
    /\ mounted = FALSE
    /\ searchQuery = NoQuery
    /\ timers = 0
    /\ removed = {}
    /\ addedSince = NoneSince
    /\ addT = IdleAdd
    /\ rmT = IdleRm
    /\ loadT = IdleLoad
    /\ syncT = IdleSync
    /\ syncT2 = IdleSync
    /\ loginT = IdleLogin
    /\ logoutT = IdleLogout
    /\ registerT = IdleRegister
    /\ checkT = IdleCheck

\* the auth thunks, each dispatched in every state
NextAuth ==
    \/ CheckAuthStart \/ CheckAuthFulfilled \/ CheckAuthRejected
    \/ LoginStart \/ LoginFulfilled \/ LoginFulfilledNoUser \/ LoginRejected
    \/ RegisterStart \/ RegisterFulfilled \/ RegisterFulfilledNoUser
    \/ RegisterRejected
    \/ NextLogout
    \/ ClearAuthError

SpecAuth == InitAuth /\ [][NextAuth]_vars

\* What the code's scheduling guarantees: a mounted screen runs its effect, a
\* call that was sent is answered and its thunk settles, a timer that was set
\* fires.  Nothing makes the user press a button.
FairApp ==
    /\ Init
    /\ [][NextAppNotes]_vars
    /\ WF_vars(MountNotesScreen)
    /\ WF_vars(Responses)
    /\ WF_vars(ResetTimer)

\* signOut is answered and logoutUser settles
LogoutResponses == LogoutSignedOut \/ LogoutRejected \/ LogoutFulfilled

\* The same for the application with NotesScreen on display and logout
FairMounted ==
    /\ InitMounted
    /\ [][NextApp]_vars
    /\ WF_vars(MountNotesScreen)
    /\ WF_vars(Responses)
    /\ WF_vars(LogoutResponses)
    /\ WF_vars(ResetTimer)

----------------------------------------------------------------------------
\* Vocabulary of the claims

Contents == 1..(MaxOps + 2)

InList(c) == \E i \in 1..Len(notes) : notes[i].content = c
InRemote(c) == \E r \in remote : r.content = c
OfflineInList(c) ==
    \E i \in 1..Len(notes) : notes[i].content = c /\ notes[i].isOffline

\* a step of the removeNote thunk
RemoveNoteStep == rmT' # rmT \/ \E noteId \in RemovableIds : RemoveNoteLocal(noteId)

\* a step of the syncNotes thunk
SyncStep == syncT' # syncT \/ SyncNotesNoUser
SyncFulfils == syncT.pc = "settle" /\ syncT.ok /\ syncT'.pc = "idle"
SyncRejects == syncT.pc = "settle" /\ ~syncT.ok /\ syncT'.pc = "idle"

Range(s) == {s[i] : i \in 1..Len(s)}

\* steps that replace the list by a loaded or refetched one
LoadSettles == loadT.pc = "settle" /\ loadT'.pc = "idle"
SyncFulfilsRun(r) == Run(r).pc = "settle" /\ Run(r).ok /\ Run(r)'.pc = "idle"

IdsOf(list) == {list[i].id : i \in 1..Len(list)}

----------------------------------------------------------------------------
\* C1: a note that was added and never removed by removeNote is never lost:
\* once a note's content is in the notes list or in the remote table, it
\* stays in one of them through every step that is not a removeNote step.
C1_NeverLost ==
    [][\A c \in Contents :
          (InList(c) \/ InRemote(c)) /\ ~RemoveNoteStep => (InList(c) \/ InRemote(c))']_vars

\* C2: no step of a syncNotes run other than the fulfilling one changes the
\* notes list or the persisted slot, and the rejecting step changes only
\* syncStatus (to 'error') and the error slot.
C2_RejectedSyncKeepsNotes ==
    [][/\ (SyncStep /\ ~SyncFulfils) => notes' = notes /\ stored' = stored
       /\ (SyncRejects \/ SyncNotesNoUser) =>
              /\ syncStatus' = "error"
              /\ UNCHANGED <<user, session, authLoading, authError, isLoading,
                             remote, nextId, now, added>>]_vars

\* a sync was rejected after it had pushed an offline note that is still
\* in the list and in the slot
C2_Witness ==
    /\ syncStatus = "error"
    /\ error = "Rejected"
    /\ syncT.pc = "idle"
    /\ \E c \in Contents : OfflineInList(c) /\ InRemote(c)
    /\ stored = Item(notes)

\* C3: when syncNotes is fulfilled, the new list is the refetched remote list
\* followed by the notes of the list read at sync start that are flagged
\* offline and whose localId is not among the localIds of the insert
\* results, in their original order.
C3_FulfilledSyncList ==
    [][SyncFulfils =>
          notes' = syncT.data \o
                   SelectSeq(syncT.notes,
                             LAMBDA n : /\ n.isOffline
                                        /\ \A i \in 1..Len(syncT.results) :
                                              syncT.results[i].localId # n.localId)]_vars

\* a sync that pushed an offline note has refetched a non-empty list and is
\* about to be fulfilled
C3_Witness ==
    /\ syncT.pc = "settle"
    /\ syncT.ok
    /\ Len(syncT.results) > 0
    /\ Len(syncT.data) > 0

\* C4: no two notes in the list have the same id.
C4_UniqueIds ==
    \A i, j \in 1..Len(notes) : i # j => notes[i].id # notes[j].id

\* C5: an offline-flagged note leaves the list only through a removeNote
\* naming its id or through a fulfilled syncNotes that pushed it.
C5_OfflineStays ==
    [][\A i \in 1..Len(notes) :
          (notes[i].isOffline /\ notes[i] \notin Range(notes')) =>
              \/ RemoveNoteStep /\ notes' = WithoutId(notes, notes[i].id)
              \/ \E r \in Runs :
                    /\ SyncFulfilsRun(r)
                    /\ \E k \in 1..Len(Run(r).results) :
                          Run(r).results[k].localId = notes[i].localId]_vars

\* steps of the addNote thunk
AddsWithoutUser == user = NoUser /\ added' = added + 1
AddInsertFails == addT.pc = "call" /\ addT'.pc = "resp" /\ ~addT'.ok
AddInsertSucceeds == addT.pc = "call" /\ addT'.pc = "resp" /\ addT'.ok
AddSettles == addT.pc = "resp" /\ addT'.pc = "idle"

\* the head of the list is an offline note under one generated identifier
HeadIsOfflineNote(list) ==
    /\ Len(list) > 0
    /\ list[1].isOffline
    /\ list[1].id = list[1].localId
    /\ list[1].id[1] = "offline"

\* C6: addNote with no user, or with a user whose remote insert fails, adds
\* a note with isOffline = true and id = localId = one generated offline
\* identifier and stores nothing remotely; addNote with a user and a
\* successful insert adds the row the remote store returned, not flagged
\* offline.
C6_AddNoteOutcome ==
    [][/\ AddsWithoutUser =>
              HeadIsOfflineNote(notes') /\ Tail(notes') = notes /\ remote' = remote
       /\ AddInsertFails => remote' = remote
       /\ (AddSettles /\ ~addT.ok) =>
              HeadIsOfflineNote(notes') /\ Tail(notes') = notes /\ remote' = remote
       /\ AddInsertSucceeds =>
              \E r \in remote' \ remote : addT'.data = RowAsNote(r)
       /\ (AddSettles /\ addT.ok) =>
              /\ Len(notes') > 0 /\ Tail(notes') = notes
              /\ notes'[1] = addT.data
              /\ ~notes'[1].isOffline]_vars

\* a user's insert failed and the offline note was added, while an earlier
\* note of the same user is a row of the remote table
C6_Witness ==
    /\ Len(notes) > 1
    /\ notes[1].isOffline /\ notes[1].user_id \in Users
    /\ ~notes[2].isOffline /\ InRemote(notes[2].content)
    /\ ~InRemote(notes[1].content)

\* two rows of the remote table made from one note
Duplicated(c) == \E r1, r2 \in remote : r1 # r2 /\ r1.content = c /\ r2.content = c

\* C7: a syncNotes run that is rejected because the refetch fails leaves every
\* note it pushed in the list, flagged offline; a later run pushes every
\* offline-flagged note of the list again, and every successful insert makes
\* a new row, whether or not the table holds a row made from that note.
C7_NoIdempotence ==
    [][/\ SyncRejects =>
              \A k \in 1..Len(syncT.results) : \A i \in 1..Len(notes) :
                  (notes[i].isOffline /\ notes[i].localId = syncT.results[k].localId)
                      => notes[i] \in Range(notes')
       /\ (syncT.pc = "idle" /\ syncT'.pc # "idle") =>
              \A i \in 1..Len(notes) : notes[i].isOffline =>
                  \E k \in 1..Len(syncT'.queue) :
                      /\ syncT'.queue[k].localId = notes[i].localId
                      /\ syncT'.queue[k].content = notes[i].content
       /\ (syncT.pc = "insert" /\ Len(syncT'.results) = Len(syncT.results) + 1
             /\ syncT'.results[Len(syncT'.results)].ok) =>
              \E r \in remote' \ remote : r.content = Head(syncT.queue).content]_vars

\* the remote table holds two rows made from one local note, which is still
\* in the list flagged offline
C7_Witness == \E c \in Contents : Duplicated(c) /\ OfflineInList(c)

\* C8: a syncNotes run only inserts into and selects from the remote table,
\* never changing or deleting a row, and the refetch is served only after
\* every insert for the offline notes read at sync start has returned.
C8_PushThenRefetch ==
    [][SyncStep =>
          /\ remote \subseteq remote'
          /\ (syncT.pc = "fetch" /\ syncT'.pc = "settle") =>
                 /\ syncT.queue = <<>>
                 /\ Len(syncT.results) = Len(FilterOffline(syncT.notes))]_vars

\* the refetch of a run that pushed an offline note has been served
C8_Witness ==
    /\ syncT.pc = "settle"
    /\ Len(syncT.results) > 0
    /\ \E k \in 1..Len(syncT.results) : syncT.results[k].ok

\* C9: offline notes are synchronized automatically: with a user
\* authenticated, every offline-flagged note of the list is eventually a row
\* of the remote table, or has left the list.  A behaviour that has used up
\* its dispatches is excused, so that a behaviour refuting this ends where
\* the user could still press Sync and does not.
C9_AutomaticSync ==
    \A c \in Contents :
        (user # NoUser /\ OfflineInList(c))
            ~> (InRemote(c) \/ ~OfflineInList(c) \/ ops = MaxOps)

\* a step of the logoutUser thunk
LogoutStep == logoutT' # logoutT

\* C10: the offline-flagged notes in the persisted slot stay in the slot through
\* a logout.
C10_LogoutKeepsOffline ==
    [][LogoutStep =>
          \A n \in Range(FilterOffline(ParseStored(stored))) :
              n \in Range(ParseStored(stored'))]_vars

\* C11: deleting a note cannot be undone: once removeNote has been fulfilled
\* with an id, no loadNotes or syncNotes that settles afterwards brings a
\* note with that id into the list.
C11_DeleteNotUndone ==
    [][(LoadSettles \/ \E r \in Runs : SyncFulfilsRun(r)) =>
          \A id \in removed : id \in IdsOf(notes') => id \in IdsOf(notes)]_vars

\* everything the application does: what the screens let a user do, and what
\* follows from it
AppSteps == NextApp \/ HandleAddNoteAny \/ HandleSearch

\* a step after which a note of the list has kept its id and has another
\* title, description or tags
EditsNote ==
    \E i \in 1..Len(notes) : \E j \in 1..Len(notes') :
        /\ notes'[j].id = notes[i].id
        /\ notes'[j].text # notes[i].text
        /\ notes[i] \notin Range(notes')

\* C12: a user can edit a note: whenever NotesScreen displays notes, some
\* step of the application leaves a note of the list with its id and a
\* changed title, description or tags.
C12_CanEdit ==
    (mounted /\ ~isLoading /\ notes # <<>>) => ENABLED (AppSteps /\ EditsNote)

\* no step of the application edits a note
C12_NeverEdited == [][~EditsNote]_vars

\* the syncNotes runs in flight
RunsInFlight == {r \in Runs : Run(r).pc # "idle"}

\* C13: with the sync button disabled while syncStatus is 'syncing', at most
\* one syncNotes run is in flight at any time.
C13_OneSyncInFlight == Cardinality(RunsInFlight) <= 1

\* C14: no timeout or cancellation exists: as long as a remote call made by
\* a syncNotes run has not returned, syncStatus is 'syncing', and as long as
\* the remote call made by loadNotes has not returned, the loading flag of
\* the notes is true.
C14_HungCallKeepsLoading ==
    /\ RunsInFlight # {} => syncStatus = "syncing"
    /\ loadT.pc # "idle" => isLoading

\* C15: a remote fetch error never rejects loadNotes: after it the complete
\* list of the persisted slot is read (the empty list if the slot is absent)
\* and loadNotes is fulfilled with it; with no user the slot is read without
\* a call to the remote table.
C15_LoadFallsBack ==
    [][/\ (loadT.pc = "idle" /\ loadT'.pc # "idle" /\ user = NoUser) =>
              loadT'.pc = "read"
       /\ (loadT.pc = "read" /\ loadT' # loadT) =>
              /\ loadT'.pc = "settle"
              /\ loadT'.result = ParseStored(stored)
              /\ remote' = remote
       /\ (loadT.pc = "fetched" /\ ~loadT.ok /\ loadT' # loadT) =>
              /\ loadT'.pc = "settle"
              /\ loadT'.result = ParseStored(stored)
       /\ LoadSettles =>
              /\ notes' = loadT.result
              /\ stored' = Item(loadT.result)
              /\ isLoading' = FALSE
              /\ error' = error]_vars

\* the fetch of a user's loadNotes failed and the list read from the slot,
\* a note that is not offline among its notes, is about to be the list
C15_Witness ==
    /\ loadT.pc = "settle"
    /\ ~loadT.ok
    /\ user # NoUser
    /\ \E i \in 1..Len(loadT.result) : ~loadT.result[i].isOffline

\* C16: every note a syncNotes run sends to the remote table carries the id
\* of the user who was authenticated when the run started as its user_id,
\* whatever user_id the note has in the list.
C16_SyncSendsAsUser ==
    [][\A r \in Runs :
          /\ (Run(r).pc = "idle" /\ Run(r)'.pc # "idle") =>
                 /\ Run(r)'.user = user
                 /\ Len(Run(r)'.queue) = Len(FilterOffline(notes))
          /\ \A k \in 1..Len(Run(r)'.queue) :
                 Run(r)'.queue[k].user_id = Run(r)'.user
          /\ (Run(r).pc = "insert" /\ Run(r)' # Run(r)) =>
                 \A row \in remote' \ remote : row.user_id = Run(r).user]_vars

\* a run has stored a row under its user's id, made from a note that is in
\* the list under another user_id
C16_Witness ==
    \E i \in 1..Len(notes) : \E row \in remote :
        /\ notes[i].isOffline
        /\ row.content = notes[i].content
        /\ row.user_id # notes[i].user_id
        /\ row.user_id \in Users

\* addNote, removeNote, loadNotes or syncNotes is dispatched
NotesDispatch ==
    /\ ops' # ops
    /\ loginT' = loginT /\ logoutT' = logoutT
    /\ registerT' = registerT /\ checkT' = checkT

ProperTitle(title) ==
    /\ title # Empty
    /\ title[1] # Blank
    /\ title[Len(title)] # Blank

\* the notes made by the addNote calls of this behaviour
AddedHere(n) == n.content > InitialAdded

\* C18: save with an empty or whitespace-only title dispatches no addNote:
\* every addNote the save handler dispatches, every note it adds to the list
\* and to the slot and every row made from it has a non-empty trimmed title.
C18_TitleRequired ==
    /\ addT.pc # "idle" => ProperTitle(addT.note.text.title)
    /\ \A i \in 1..Len(notes) : AddedHere(notes[i]) => ProperTitle(notes[i].text.title)
    /\ \A i \in 1..Len(ParseStored(stored)) :
          AddedHere(ParseStored(stored)[i]) => ProperTitle(ParseStored(stored)[i].text.title)
    /\ \A row \in remote : AddedHere(row) => ProperTitle(row.text.title)

\* a note typed with whitespace around its title is in the list, trimmed
C18_Witness ==
    \E i \in 1..Len(notes) : AddedHere(notes[i]) /\ notes[i].text.title = <<"a">>

\* s contains q, letters compared without regard to case
ContainsNoCase(s, q) ==
    \E k \in 0..(Len(s) - Len(q)) :
        \A i \in 1..Len(q) : LowerChar(s[k + i]) = LowerChar(q[i])

\* the notes whose title or tags contain the search query
TitleOrTagMatches ==
    SelectSeq(notes, LAMBDA n : \/ ContainsNoCase(n.text.title, searchQuery)
                                \/ ContainsNoCase(n.text.tags, searchQuery))

\* C19: the displayed list is the notes list filtered by title or tag: the
\* notes list itself when the search query is empty, otherwise the notes
\* whose title or tags contain the query case-insensitively, in their order;
\* setSearchQuery does not change the notes list.
C19_FilterByTitleOrTag ==
    [][/\ (FilteredNotes = IF searchQuery = Empty THEN notes ELSE TitleOrTagMatches)'
       /\ searchQuery' # searchQuery => notes' = notes]_vars

\* the notes whose title, description or tags contain the search query
AnyTextMatches ==
    SelectSeq(notes, LAMBDA n : \/ ContainsNoCase(n.text.title, searchQuery)
                                \/ ContainsNoCase(n.text.description, searchQuery)
                                \/ ContainsNoCase(n.text.tags, searchQuery))

\* the displayed list with the description searched as well
C19_FilterByAnyText ==
    [][/\ (FilteredNotes = IF searchQuery = Empty THEN notes ELSE AnyTextMatches)'
       /\ searchQuery' # searchQuery => notes' = notes]_vars

\* no thunk is in flight
Quiescent ==
    /\ addT.pc = "idle" /\ rmT.pc = "idle" /\ loadT.pc = "idle"
    /\ RunsInFlight = {}
    /\ loginT.pc = "idle" /\ logoutT.pc = "idle"
    /\ registerT.pc = "idle" /\ checkT.pc = "idle"

\* C20: whenever no thunk is in flight, the list kept in the persisted
\* 'notes' slot (the empty list when the slot is absent) is the notes list.
C20_SlotEqualsList == Quiescent => ParseStored(stored) = notes

\* the list holds a note of this id that is not flagged offline
ListedOnline(id) == \E i \in 1..Len(notes) : notes[i].id = id /\ ~notes[i].isOffline

\* the notes of list whose id is not id, in their order
Others(list, id) == SelectSeq(list, LAMBDA n : n.id # id)

\* C21: removeNote is always fulfilled and removes from the list every note
\* with the given id, leaving all other notes and their order unchanged, even
\* when the remote delete fails; for an offline-flagged note or an id not in
\* the list it makes no remote call.
C21_RemoveNoteFulfilled ==
    [][/\ (rmT.pc = "idle" /\ rmT'.pc # "idle") =>
              /\ rmT'.pc = "call"
              /\ ListedOnline(rmT'.noteId)
              /\ UNCHANGED <<notes, stored, remote, error>>
       /\ (rmT.pc = "call" /\ rmT' # rmT) =>
              /\ rmT'.pc = "resp" /\ rmT'.noteId = rmT.noteId
              /\ UNCHANGED <<notes, stored, error>>
       /\ (rmT.pc = "resp" /\ rmT' # rmT) =>
              /\ rmT' = IdleRm
              /\ removed' = removed \cup {rmT.noteId}
              /\ notes' = Others(notes, rmT.noteId)
              /\ UNCHANGED <<remote, error>>
       /\ (rmT' = rmT /\ ops' # ops /\ \E noteId \in RemovableIds : RemoveNoteLocal(noteId)) =>
              \E id \in RemovableIds :
                  /\ ~ListedOnline(id)
                  /\ removed' = removed \cup {id}
                  /\ notes' = Others(notes, id)
                  /\ UNCHANGED <<remote, error>>]_vars

\* removeNote was fulfilled with the id of a row the remote table still
\* holds, and the other note of the list is left
C21_Witness ==
    /\ rmT.pc = "idle"
    /\ \E r \in remote : r.id \in removed
    /\ notes # <<>>
    /\ removed \cap IdsOf(notes) = {}

\* steps in which an auth thunk settles
LoginSettles == loginT.pc = "call" /\ loginT'.pc = "idle"
RegisterSettles == registerT.pc = "call" /\ registerT'.pc = "idle"
CheckAuthSettles == checkT.pc = "call" /\ checkT'.pc = "idle"
LogoutFulfils == logoutT.pc = "settle" /\ logoutT'.pc = "idle"

\* the step is a fulfilment: no failure message is recorded
NoFailureRecorded == authError' = authError

\* C22: a failed loginUser or registerUser leaves auth.user unchanged, records
\* the failure message in auth.error and clears isLoading; auth.user becomes
\* non-null only through a fulfilled loginUser, registerUser or
\* checkAuthStatus that returned a user, and becomes null only through a
\* fulfilled logoutUser, a settled checkAuthStatus or a fulfilled
\* login/register with no user.
C22_AuthUserChanges ==
    [][/\ LoginRejected =>
              user' = user /\ authError' = "Login failed" /\ ~authLoading'
       /\ RegisterRejected =>
              user' = user /\ authError' = "Registration failed" /\ ~authLoading'
       /\ (user' # user /\ user' # NoUser) =>
              \/ LoginSettles /\ NoFailureRecorded /\ user' = loginT.who
              \/ RegisterSettles /\ NoFailureRecorded /\ user' = registerT.who
              \/ CheckAuthSettles /\ NoFailureRecorded /\ user' = session
       /\ (user' # user /\ user' = NoUser) =>
              \/ LogoutFulfils
              \/ CheckAuthSettles
              \/ LoginSettles /\ NoFailureRecorded
              \/ RegisterSettles /\ NoFailureRecorded]_vars

\* registerUser has failed while a user was authenticated: the user is still
\* there, the message is recorded and the loading flag is off
C22_Witness ==
    /\ user # NoUser
    /\ authError = "Registration failed"
    /\ ~authLoading
    /\ registerT.pc = "idle"
    /\ ops > 1

\* C23: when loadNotes runs with an authenticated user and the remote fetch
\* succeeds, its result is the remote list followed by exactly those entries
\* of the persisted 'notes' slot that are flagged offline, in stored order;
\* persisted entries not flagged offline are dropped.
C23_LoadMerges ==
    [][/\ (loadT.pc = "idle" /\ loadT'.pc # "idle" /\ user # NoUser) =>
              loadT'.pc = "fetch"
       /\ (loadT.pc = "fetch" /\ loadT' # loadT /\ loadT'.ok) =>
              /\ loadT'.pc = "fetched"
              /\ Range(loadT'.data) = {RowAsNote(r) : r \in Visible}
              /\ Len(loadT'.data) = Cardinality(Visible)
       /\ (loadT.pc = "fetched" /\ loadT.ok /\ loadT' # loadT) =>
              /\ loadT'.pc = "settle"
              /\ loadT'.result =
                     loadT.data \o SelectSeq(ParseStored(stored), LAMBDA n : n.isOffline)
       /\ (LoadSettles /\ loadT.ok) => notes' = loadT.result]_vars

\* a user's loadNotes has fetched a row and read a slot that holds an
\* offline note and a note that is not offline: its result is the row
\* followed by the offline note
C23_Witness ==
    /\ loadT.pc = "settle"
    /\ loadT.ok
    /\ Len(loadT.data) > 0
    /\ Len(loadT.result) > Len(loadT.data)
    /\ \E i \in 1..Len(ParseStored(stored)) : ~ParseStored(stored)[i].isOffline
    /\ Len(loadT.result) = Len(ParseStored(stored))

\* C24: after every fulfilled syncNotes, the notes list contains no
\* offline-flagged note that was in the list when that sync started, whether
\* or not the remote insert of that note succeeded.
C24_SyncDropsOffline ==
    [][\A r \in Runs :
          SyncFulfilsRun(r) =>
              \A n \in Range(Run(r).notes) :
                  n.isOffline =>
                      /\ n \notin Range(notes')
                      /\ \A i \in 1..Len(notes') :
                            notes'[i].isOffline => notes'[i].localId # n.localId]_vars

\* the refetch of a sync has succeeded after the insert of an offline note
\* had failed: the note is in the list the run read, still in the list, and
\* the run is about to be fulfilled with the refetched rows alone
C24_Witness ==
    /\ syncT.pc = "settle"
    /\ syncT.ok
    /\ syncT.notes = notes
    /\ \E k \in 1..Len(syncT.results) : \E i \in 1..Len(notes) :
          /\ ~syncT.results[k].ok
          /\ notes[i].isOffline
          /\ notes[i].localId = syncT.results[k].localId
          /\ ~InRemote(notes[i].content)
    /\ SyncResult(syncT.data, syncT.notes, syncT.results) = syncT.data

\* the persisted slot holds a note of this content
InStored(c) ==
    \E i \in 1..Len(ParseStored(stored)) : ParseStored(stored)[i].content = c

\* C25: a note added by addNote while a syncNotes or loadNotes run is in
\* flight is still in the notes list (and in the persisted slot) after that
\* run is fulfilled.
C25_AddedDuringRunStays ==
    [][/\ LoadSettles =>
              \A c \in addedSince.load : InList(c) => (InList(c) /\ InStored(c))'
       /\ \A r \in Runs :
              SyncFulfilsRun(r) =>
                  \A c \in SinceRun(r) : InList(c) => (InList(c) /\ InStored(c))']_vars

\* C26: whenever a user is authenticated, every note in the list that is not
\* flagged offline has user_id equal to that user's id, including in the
\* states between a logout of one user, the login of a different user and
\* the completion of the next loadNotes.
C26_ListOfUser ==
    user # NoUser =>
        \A i \in 1..Len(notes) : ~notes[i].isOffline => notes[i].user_id = user

\* steps in which a syncNotes run starts, and settles
SyncStarts == \E r \in Runs : Run(r).pc = "idle" /\ Run(r)'.pc # "idle"
SyncSettles == \E r \in Runs : Run(r).pc = "settle" /\ Run(r)'.pc = "idle"

\* C27: syncStatus is 'syncing' in every state in which a syncNotes run is in
\* flight: it becomes 'syncing' when a run starts, 'success' or 'error' only
\* when a run settles, and 'idle' only through the reset that follows a
\* success.
C27_SyncingWhileInFlight ==
    [][/\ (RunsInFlight # {} => syncStatus = "syncing")'
       /\ SyncStarts => syncStatus' = "syncing"
       /\ (syncStatus' # syncStatus /\ syncStatus' \in {"success", "error"}) =>
              SyncSettles \/ SyncNotesNoUser
       /\ (syncStatus' # syncStatus /\ syncStatus' = "idle") =>
              timers' = timers - 1]_vars

\* C28: if every remote call eventually returns (with data or an error),
\* every started syncNotes eventually settles as fulfilled or rejected, so
\* syncStatus eventually leaves 'syncing', and after a success with no
\* further sync it eventually returns to 'idle'.  A behaviour that has used
\* up its dispatches is excused from the return to 'idle', so that a
\* behaviour refuting it ends where the user could still act and does not.
C28_SyncSettles ==
    /\ \A r \in Runs : (Run(r).pc # "idle") ~> (Run(r).pc = "idle")
    /\ (syncStatus = "syncing") ~> (syncStatus # "syncing")
    /\ (syncStatus = "success") ~>
           (syncStatus \in {"idle", "syncing"} \/ ops = MaxOps)

\* the first two parts of C28: every run settles and syncStatus leaves
\* 'syncing'
C28_RunsSettle ==
    /\ \A r \in Runs : (Run(r).pc # "idle") ~> (Run(r).pc = "idle")
    /\ (syncStatus = "syncing") ~> (syncStatus # "syncing")

\* the return to 'idle' while NotesScreen stays on display
C28_IdleWhileMounted ==
    (syncStatus = "success" /\ mounted) ~>
        (syncStatus \in {"idle", "syncing"} \/ ~mounted)

\* C29: addNote is always fulfilled, whatever the remote insert returns:
\* exactly one note is inserted at the head of the list, and all notes
\* already in the list keep their content and relative order.
C29_AddNoteAtHead ==
    [][/\ (addT.pc = "call" /\ addT' # addT) =>
              addT'.pc = "resp" /\ addT'.note = addT.note /\ notes' = notes
       /\ (addT.pc = "resp" /\ addT' # addT) =>
              /\ addT' = IdleAdd
              /\ Len(notes') = Len(notes) + 1
              /\ notes'[1].content = addT.note.content
              /\ notes'[1].isOffline = ~addT.ok
              /\ \A i \in 1..Len(notes) : notes'[i + 1] = notes[i]
              /\ error' = error
       /\ (added' # added /\ user = NoUser) =>
              /\ Len(notes') = Len(notes) + 1
              /\ notes'[1].content = added'
              /\ \A i \in 1..Len(notes) : notes'[i + 1] = notes[i]
              /\ error' = error]_vars

\* three notes have been added, the last at the head: one whose insert
\* returned a row and one whose insert returned an error among them
C29_Witness ==
    /\ addT.pc = "idle"
    /\ Len(notes) = 3
    /\ \A i \in 1..3 : notes[i].content = 4 - i
    /\ \E i, j \in 1..3 :
          /\ notes[i].isOffline /\ notes[i].user_id \in Users
          /\ ~notes[j].isOffline

====
